---------------------------- MODULE Spec2Model ----------------------------
(***************************************************************************)
(* rustbackend: a one-route axum service.                                  *)
(*                                                                         *)
(*   src/rustbackend/src/lib.rs            AppState, create_router,        *)
(*                                         health_check (the library)      *)
(*   src/rustbackend/src/main.rs           main (the production binary)    *)
(*                                         and its own create_router and   *)
(*                                         health_check                    *)
(*   src/rustbackend/tests/integration.rs  test_health_endpoint: the       *)
(*                                         library router served with      *)
(*                                         graceful shutdown               *)
(*                                                                         *)
(* One behaviour is one run of one of the two programs (mode): the binary  *)
(* or the integration test.  Clients are the environment: they connect,    *)
(* send requests, read responses and close connections at any time.        *)
(***************************************************************************)
EXTENDS Naturals, FiniteSets, Sequences

\* Number of client connections of a run.
MaxConns == 2

Conns == 1..MaxConns

\* The connection of the reqwest client of the integration test.
TestConn == 1

VARIABLES
    mode,         \* "main": the binary runs; "test": test_health_endpoint runs
    env,          \* what std::env::var("RUST_LOG") returns
    pc,           \* position of main / of the test body
    subscriber,   \* the global tracing subscriber: "uninit" or its filter
    initCount,    \* number of calls of .init()
    appState,     \* the Arc<AppState>: "none" until built
    router,       \* the Router: NoRouter until create_router has returned
    listener,     \* "none", "bound", "closed"
    bindAttempts, \* number of calls of TcpListener::bind
    result,       \* what main returns / what the serve future of the test returns
    chan,         \* the one-shot shutdown channel: "none", "open", "sent", "received"
    server,       \* the serve future: "none", "serving", "draining", "done"
    st,           \* per connection, the server's side of it
    cl,           \* per connection, the client's outstanding exchange
    atSignal      \* history, per connection: "in flight" when its request was
                  \* in flight as the shutdown signal was sent, "answered"
                  \* once that request has its response, "-" otherwise

vars == <<mode, env, pc, subscriber, initCount, appState, router, listener,
          bindAttempts, result, chan, server, st, cl, atSignal>>

---------------------------------------------------------------------------
(* Requests and responses *)

Methods == {"GET", "HEAD", "POST", "PUT", "DELETE"}
Paths   == {"/", "/health"}
\* What a request carries besides its method and path: nothing, or an extra
\* header and a body.
Extras  == {[headers |-> "none", body |-> ""],
            [headers |-> "x-extra", body |-> "payload"]}

\* Every method on every path, bare; on the routed path also with the extra
\* header and the body.
Requests ==
    {r \in {[method |-> m, path |-> p, headers |-> x.headers, body |-> x.body] :
                m \in Methods, p \in Paths, x \in Extras} :
        r.path = "/" \/ r.body = ""}

NoReq  == [method |-> "-", path |-> "-", headers |-> "-", body |-> "-"]
NoResp == [status |-> 0, body |-> "-"]
NoExchange == [req |-> NoReq, resp |-> NoResp, n |-> 0]

\* client.get(format!("http://{}", addr)).send()
TestRequest == [method |-> "GET", path |-> "/", headers |-> "none", body |-> ""]

\* The values of std::env::var("RUST_LOG"): the two errors, or the value.
EnvValues == {"NotPresent", "NotUnicode", "debug"}

\* pub struct AppState {}: no fields, one value.
AppState == "AppState{}"

NoRouter == [routes |-> {}, layers |-> <<>>, state |-> "none"]

---------------------------------------------------------------------------
(* The library: src/rustbackend/src/lib.rs *)

\* Mutant: the greeting with a trailing newline.
lib_health_check_newline == "Hello, World!\n"

\* async fn health_check() -> &'static str
lib_health_check == "Hello, World!"

\* Router::new().route("/", get(health_check)).layer(TraceLayer::new_for_http())
\*              .with_state(state)
lib_create_router(state) ==
    [routes |-> {[path |-> "/", filter |-> "GET", handler |-> "lib::health_check"]},
     layers |-> <<"TraceLayer">>,
     state  |-> state]

(* The binary's own copies: src/rustbackend/src/main.rs *)

\* Mutant: the binary's copy of the handler drifts from the library's.
main_health_check_drifted == "Hello, world!"

main_health_check == "Hello, World!"

main_create_router(state) ==
    [routes |-> {[path |-> "/", filter |-> "GET", handler |-> "main::health_check"]},
     layers |-> <<"TraceLayer">>,
     state  |-> state]

---------------------------------------------------------------------------
(* What a Router does with a request *)

\* Mutant: any(handler) in place of get(handler).
MethodAcceptedAny(filter, method) == TRUE

\* get(handler): the method router built by axum::routing::get calls the
\* handler for GET and also for HEAD.
MethodAccepted(filter, method) ==
    \/ method = filter
    \/ filter = "GET" /\ method = "HEAD"

\* Mutant: a handler that greets differently once it has answered before.
CallHandlerCounting(handler) ==
    [status |-> 200,
     body   |-> IF \E c \in Conns : cl[c].n > 0 THEN "Hello again!"
                ELSE "Hello, World!"]

\* The handler's return value turned into a response: a &'static str is a
\* 200 response whose body is the string.  The request is not an argument of
\* the handler: health_check() takes no extractor.
CallHandler(handler) ==
    [status |-> 200,
     body   |-> IF handler = "lib::health_check" THEN lib_health_check
                ELSE main_health_check]

\* The response to a HEAD request carries no body.
StripBody(method, resp) ==
    IF method = "HEAD" THEN [resp EXCEPT !.body = ""] ELSE resp

\* Route lookup: the path selects the route (none: 404 from the default
\* fallback), then the route's method filter selects the handler (none: 405).
Dispatch(r, req) ==
    LET hits == {e \in r.routes : e.path = req.path} IN
    IF hits = {} THEN [status |-> 404, body |-> ""]
    ELSE LET e == CHOOSE e \in hits : TRUE IN
         IF MethodAccepted(e.filter, req.method)
         THEN StripBody(req.method, CallHandler(e.handler))
         ELSE [status |-> 405, body |-> ""]

\* TraceLayer::new_for_http(): records a span around the inner service and
\* hands its response on unchanged.
TraceLayer(resp) == resp

\* The router as a service: the layers around the route lookup.
Serve(r, req) ==
    IF Len(r.layers) > 0 THEN TraceLayer(Dispatch(r, req)) ELSE Dispatch(r, req)

---------------------------------------------------------------------------
(* Initial state: the process has started, nothing has run *)

\* The test never reads RUST_LOG and installs no subscriber.
Init ==
    /\ mode \in {"main", "test"}
    /\ env \in IF mode = "main" THEN EnvValues ELSE {"NotPresent"}
    /\ pc = IF mode = "main" THEN "m_start" ELSE "t_start"
    /\ subscriber = "uninit"
    /\ initCount = 0
    /\ appState = "none"
    /\ router = NoRouter
    /\ listener = "none"
    /\ bindAttempts = 0
    /\ result = "pending"
    /\ chan = "none"
    /\ server = "none"
    /\ st = [c \in Conns |-> "none"]
    /\ cl = [c \in Conns |-> NoExchange]
    /\ atSignal = [c \in Conns |-> "-"]

---------------------------------------------------------------------------
(* main: src/rustbackend/src/main.rs *)

\* std::env::var("RUST_LOG").unwrap_or_else(|_| "info".into())
RustLogOrInfo(e) == IF e \in {"NotPresent", "NotUnicode"} THEN "info" ELSE e

\* Mutant: main goes on without installing the subscriber.
InitTracingSkipped ==
    /\ pc = "m_start"
    /\ pc' = "m_traced"
    /\ UNCHANGED <<atSignal, mode, env, subscriber, initCount, appState, router,
                   listener, bindAttempts, result, chan, server, st, cl>>

\* tracing_subscriber::registry().with(EnvFilter::new(..)).with(fmt::layer()).init()
InitTracing ==
    /\ pc = "m_start"
    /\ subscriber' = RustLogOrInfo(env)
    /\ initCount' = initCount + 1
    /\ pc' = "m_traced"
    /\ UNCHANGED <<atSignal, mode, env, appState, router, listener, bindAttempts, result,
                   chan, server, st, cl>>

\* let state = Arc::new(AppState {});
MainBuildState ==
    /\ pc = "m_traced"
    /\ appState' = AppState
    /\ pc' = "m_state"
    /\ UNCHANGED <<atSignal, mode, env, subscriber, initCount, router, listener,
                   bindAttempts, result, chan, server, st, cl>>

\* let app = create_router(state);
MainBuildRouter ==
    /\ pc = "m_state"
    /\ router' = main_create_router(appState)
    /\ pc' = "m_router"
    /\ UNCHANGED <<atSignal, mode, env, subscriber, initCount, appState, listener,
                   bindAttempts, result, chan, server, st, cl>>

\* Mutant: a failed bind is tried again instead of being returned.
MainBindRetry ==
    /\ pc = "m_router"
    /\ bindAttempts < 3
    /\ bindAttempts' = bindAttempts + 1
    /\ \E ok \in BOOLEAN :
          IF ok
          THEN /\ listener' = "bound"
               /\ server' = "serving"
               /\ pc' = "m_serving"
          ELSE UNCHANGED <<listener, server, pc>>
    /\ UNCHANGED <<atSignal, mode, env, subscriber, initCount, appState, router,
                   result, chan, st, cl>>

\* axum::serve(TcpListener::bind(addr).await?, app).await?: the bind
\* succeeds and the serve loop starts, or it fails and `?` returns the error
\* from main.
MainBind ==
    /\ pc = "m_router"
    /\ bindAttempts' = bindAttempts + 1
    /\ \E ok \in BOOLEAN :
          IF ok
          THEN /\ listener' = "bound"
               /\ server' = "serving"
               /\ pc' = "m_serving"
               /\ UNCHANGED result
          ELSE /\ result' = "Err(bind)"
               /\ pc' = "m_exit"
               /\ UNCHANGED <<listener, server>>
    /\ UNCHANGED <<atSignal, mode, env, subscriber, initCount, appState, router, chan, st, cl>>

---------------------------------------------------------------------------
(* test_health_endpoint: src/rustbackend/tests/integration.rs *)

\* let (shutdown_tx, shutdown_rx) = oneshot::channel::<()>();
\* let listener = TcpListener::bind("127.0.0.1:0").await.unwrap();
TestBind ==
    /\ pc = "t_start"
    /\ chan' = "open"
    /\ bindAttempts' = bindAttempts + 1
    /\ \E ok \in BOOLEAN :
          IF ok
          THEN /\ listener' = "bound"
               /\ pc' = "t_bound"
          ELSE /\ pc' = "t_panic"
               /\ UNCHANGED listener
    /\ UNCHANGED <<atSignal, mode, env, subscriber, initCount, appState, router, result,
                   server, st, cl>>

\* let app_state = Arc::new(AppState {});
TestBuildState ==
    /\ pc = "t_bound"
    /\ appState' = AppState
    /\ pc' = "t_state"
    /\ UNCHANGED <<atSignal, mode, env, subscriber, initCount, router, listener,
                   bindAttempts, result, chan, server, st, cl>>

\* let app = create_router(app_state);
TestBuildRouter ==
    /\ pc = "t_state"
    /\ router' = lib_create_router(appState)
    /\ pc' = "t_router"
    /\ UNCHANGED <<atSignal, mode, env, subscriber, initCount, appState, listener,
                   bindAttempts, result, chan, server, st, cl>>

\* tokio::spawn(async move { axum::serve(listener, app)
\*     .with_graceful_shutdown(..).await.expect("Server error") })
TestSpawn ==
    /\ pc = "t_router"
    /\ server' = "serving"
    /\ pc' = "t_spawned"
    /\ UNCHANGED <<atSignal, mode, env, subscriber, initCount, appState, router, listener,
                   bindAttempts, result, chan, st, cl>>

\* assert_eq!(response.status(), 200);
\* assert_eq!(response.text().await.unwrap(), "Hello, World!");
\* The client, and with it its pooled connection, lives to the end of the test.
TestAssert ==
    /\ pc = "t_spawned"
    /\ cl[TestConn].n > 0
    /\ pc' = IF cl[TestConn].resp = [status |-> 200, body |-> "Hello, World!"]
             THEN "t_asserted" ELSE "t_panic"
    /\ cl' = [cl EXCEPT ![TestConn] = NoExchange]
    /\ UNCHANGED <<atSignal, mode, env, subscriber, initCount, appState, router, listener,
                   bindAttempts, result, chan, server, st>>

\* let _ = shutdown_tx.send(());
SendShutdown ==
    /\ pc = "t_asserted"
    /\ chan = "open"
    /\ chan' = "sent"
    /\ pc' = "t_signalled"
    /\ atSignal' = [c \in Conns |-> IF st[c] = "read" THEN "in flight" ELSE "-"]
    /\ UNCHANGED <<mode, env, subscriber, initCount, appState, router, listener,
                   bindAttempts, result, server, st, cl>>

\* let _ = server_handle.await;
TestJoin ==
    /\ pc = "t_signalled"
    /\ server = "done"
    /\ pc' = "t_done"
    /\ UNCHANGED <<atSignal, mode, env, subscriber, initCount, appState, router, listener,
                   bindAttempts, result, chan, server, st, cl>>

---------------------------------------------------------------------------
(* Clients *)

\* The connection of the test's own client follows the test body; every
\* other connection belongs to a client that does as it likes.
IsTestClient(c) == mode = "test" /\ c = TestConn

\* A client connects: the connection waits in the listener's backlog.
Connect(c) ==
    /\ listener = "bound"
    /\ st[c] = "none"
    /\ IsTestClient(c) => pc = "t_spawned"
    /\ st' = [st EXCEPT ![c] = "pending"]
    /\ UNCHANGED <<atSignal, mode, env, pc, subscriber, initCount, appState, router,
                   listener, bindAttempts, result, chan, server, cl>>

\* The client reads the response of its exchange.
ClientTake(c) ==
    /\ ~IsTestClient(c)
    /\ cl[c].n > 0
    /\ cl' = [cl EXCEPT ![c] = NoExchange]
    /\ UNCHANGED <<atSignal, mode, env, pc, subscriber, initCount, appState, router,
                   listener, bindAttempts, result, chan, server, st>>

\* The client closes its idle connection.
ClientClose(c) ==
    /\ ~IsTestClient(c)
    /\ st[c] = "idle"
    /\ cl[c] = NoExchange
    /\ st' = [st EXCEPT ![c] = "closed"]
    /\ UNCHANGED <<atSignal, mode, env, pc, subscriber, initCount, appState, router,
                   listener, bindAttempts, result, chan, server, cl>>

---------------------------------------------------------------------------
(* axum::serve: the accept loop and one task per connection *)

\* The accept loop takes a connection from the backlog and spawns its task.
Accept(c) ==
    /\ server = "serving"
    /\ st[c] = "pending"
    /\ st' = [st EXCEPT ![c] = "idle"]
    /\ UNCHANGED <<atSignal, mode, env, pc, subscriber, initCount, appState, router,
                   listener, bindAttempts, result, chan, server, cl>>

\* A request arrives on an open connection: the client has written it and
\* the connection's task has read it.  From here on it is in flight.
Request(c, req) ==
    /\ server \in {"serving", "draining"}
    /\ st[c] = "idle"
    /\ cl[c] = NoExchange
    /\ IsTestClient(c) => pc = "t_spawned" /\ req = TestRequest
    /\ st' = [st EXCEPT ![c] = "read"]
    /\ cl' = [cl EXCEPT ![c] = [req |-> req, resp |-> NoResp, n |-> 0]]
    /\ UNCHANGED <<atSignal, mode, env, pc, subscriber, initCount, appState, router,
                   listener, bindAttempts, result, chan, server>>

\* Mutant: the response is written to the next connection, not to the
\* connection the request came from.
RespondSwapped(c) ==
    LET d == IF c = MaxConns THEN 1 ELSE c + 1 IN
    /\ server \in {"serving", "draining"}
    /\ st[c] = "read"
    /\ cl[d].n = 0
    /\ cl' = [cl EXCEPT ![d].resp = Serve(router, cl[c].req), ![d].n = @ + 1]
    /\ st' = [st EXCEPT ![c] = IF server = "draining" THEN "closed" ELSE "idle"]
    /\ atSignal' = [atSignal EXCEPT ![c] = IF @ = "in flight" THEN "answered" ELSE @]
    /\ UNCHANGED <<mode, env, pc, subscriber, initCount, appState, router,
                   listener, bindAttempts, result, chan, server>>

\* Mutant: a request that matches no route registers one for its path.
RespondRegistering(c) ==
    /\ server \in {"serving", "draining"}
    /\ st[c] = "read"
    /\ cl' = [cl EXCEPT ![c].resp = Serve(router, cl[c].req), ![c].n = @ + 1]
    /\ st' = [st EXCEPT ![c] = IF server = "draining" THEN "closed" ELSE "idle"]
    /\ atSignal' = [atSignal EXCEPT ![c] = IF @ = "in flight" THEN "answered" ELSE @]
    /\ router' = IF Serve(router, cl[c].req).status = 404
                 THEN [router EXCEPT !.routes = @ \cup
                          {[path |-> cl[c].req.path, filter |-> "GET",
                            handler |-> "lib::health_check"]}]
                 ELSE router
    /\ UNCHANGED <<mode, env, pc, subscriber, initCount, appState,
                   listener, bindAttempts, result, chan, server>>

\* The connection's task calls the router and writes the response to its own
\* connection.  The connection is kept alive, unless the server is shutting
\* down: then it is closed after the response.
Respond(c) ==
    /\ server \in {"serving", "draining"}
    /\ st[c] = "read"
    /\ cl' = [cl EXCEPT ![c].resp = Serve(router, cl[c].req), ![c].n = @ + 1]
    /\ st' = [st EXCEPT ![c] = IF server = "draining" THEN "closed" ELSE "idle"]
    /\ atSignal' = [atSignal EXCEPT ![c] = IF @ = "in flight" THEN "answered" ELSE @]
    /\ UNCHANGED <<mode, env, pc, subscriber, initCount, appState, router,
                   listener, bindAttempts, result, chan, server>>

\* .with_graceful_shutdown(async { let _ = shutdown_rx.await; }): the future
\* completes in the server's task, some time after the send, and the serve
\* loop observes it.  The accept loop ends and the listener is dropped, and
\* with it its backlog.
ObserveShutdown ==
    /\ server = "serving"
    /\ chan = "sent"
    /\ chan' = "received"
    /\ server' = "draining"
    /\ listener' = "closed"
    /\ st' = [c \in Conns |-> IF st[c] = "pending" THEN "closed" ELSE st[c]]
    /\ UNCHANGED <<atSignal, mode, env, pc, subscriber, initCount, appState, router,
                   bindAttempts, result, cl>>

\* Mutant: shutdown closes every open connection, a request in flight or not.
CloseAny(c) ==
    /\ server = "draining"
    /\ st[c] \in {"idle", "read"}
    /\ st' = [st EXCEPT ![c] = "closed"]
    /\ UNCHANGED <<atSignal, mode, env, pc, subscriber, initCount, appState,
                   router, listener, bindAttempts, result, chan, server, cl>>

\* Mutant: shutdown leaves idle connections open until their clients close
\* them.
CloseIdleNever(c) ==
    /\ server = "draining"
    /\ st[c] = "idle"
    /\ UNCHANGED vars

\* Graceful shutdown of a connection with no request in flight: it is closed.
CloseIdle(c) ==
    /\ server = "draining"
    /\ st[c] = "idle"
    /\ st' = [st EXCEPT ![c] = "closed"]
    /\ UNCHANGED <<atSignal, mode, env, pc, subscriber, initCount, appState, router,
                   listener, bindAttempts, result, chan, server, cl>>

\* Every connection task has ended: the serve future returns Ok(()), so
\* .expect("Server error") does not panic and the spawned task completes.
ServerDone ==
    /\ server = "draining"
    /\ \A c \in Conns : st[c] \notin {"idle", "read"}
    /\ server' = "done"
    /\ result' = "Ok"
    /\ UNCHANGED <<atSignal, mode, env, pc, subscriber, initCount, appState, router,
                   listener, bindAttempts, chan, st, cl>>

---------------------------------------------------------------------------
(* Specifications *)

Next ==
    \/ InitTracing
    \/ MainBuildState
    \/ MainBuildRouter
    \/ MainBind
    \/ TestBind
    \/ TestBuildState
    \/ TestBuildRouter
    \/ TestSpawn
    \/ TestAssert
    \/ SendShutdown
    \/ TestJoin
    \/ ObserveShutdown
    \/ ServerDone
    \/ \E c \in Conns : Connect(c)
    \/ \E c \in Conns : ClientTake(c)
    \/ \E c \in Conns : ClientClose(c)
    \/ \E c \in Conns : Accept(c)
    \/ \E c \in Conns : \E req \in Requests : Request(c, req)
    \/ \E c \in Conns : Respond(c)
    \/ \E c \in Conns : CloseIdle(c)

Spec == Init /\ [][Next]_vars

\* The sequential code of the program: main, or the test body with its
\* client.  At most one of these steps is enabled at a time.
ProgramStep ==
    \/ InitTracing \/ MainBuildState \/ MainBuildRouter \/ MainBind
    \/ TestBind \/ TestBuildState \/ TestBuildRouter \/ TestSpawn
    \/ Connect(TestConn) /\ IsTestClient(TestConn)
    \/ Request(TestConn, TestRequest) /\ IsTestClient(TestConn)
    \/ TestAssert \/ SendShutdown \/ TestJoin

\* The server's own task once the signal is sent: it ends the accept loop,
\* and returns when the connections are gone.
ShutdownStep == ObserveShutdown \/ ServerDone

\* What the server does for connection c: accept it, answer its request,
\* close it at shutdown.
ConnectionStep(c) == Accept(c) \/ Respond(c) \/ CloseIdle(c)

\* The runtime keeps polling the tasks of the program: main, the test body,
\* the accept loop and every connection task make progress.  Clients owe
\* nothing, except the test's own client, which is part of the test body.
FairSpec ==
    /\ Spec
    /\ WF_vars(ProgramStep)
    /\ WF_vars(ShutdownStep)
    /\ \A c \in Conns : WF_vars(ConnectionStep(c))

---------------------------------------------------------------------------
(* Properties *)

\* The exchange of connection c has its response.
Answered(c) == cl[c].n > 0

IsGetRoot(req) == req.method = "GET" /\ req.path = "/"
IsHeadRoot(req) == req.method = "HEAD" /\ req.path = "/"

Hello == [status |-> 200, body |-> "Hello, World!"]

RouterBuilt == router /= NoRouter

(* C1: every response to a GET / request, whatever the request's headers   *)
(* and body, has status 200 and the body "Hello, World!" exactly.           *)
C1_GetRootIsHello ==
    \A c \in Conns :
        Answered(c) /\ IsGetRoot(cl[c].req) => cl[c].resp = Hello

\* A GET / with an extra header and a body has been answered.
C1_Witness ==
    \E c \in Conns :
        /\ Answered(c)
        /\ IsGetRoot(cl[c].req)
        /\ cl[c].req.headers = "x-extra"
        /\ cl[c].req.body = "payload"

(* C2 as stated: every response to a request other than GET / has a status *)
(* other than 200.                                                          *)
C2_OnlyGetRootIs200 ==
    \A c \in Conns :
        Answered(c) /\ ~IsGetRoot(cl[c].req) => cl[c].resp.status /= 200

(* C2 amended: every response to a request that is neither GET / nor       *)
(* HEAD / has a status other than 200; HEAD / is answered 200 with an      *)
(* empty body.                                                              *)
C2_OnlyGetAndHeadRootAre200 ==
    \A c \in Conns :
        Answered(c) =>
            /\ ~IsGetRoot(cl[c].req) /\ ~IsHeadRoot(cl[c].req)
                  => cl[c].resp.status /= 200
            /\ IsHeadRoot(cl[c].req) => cl[c].resp = [status |-> 200, body |-> ""]

\* A HEAD / has been answered, and so has another method on "/".
C2_Witness ==
    \E c, d \in Conns :
        /\ Answered(c) /\ IsHeadRoot(cl[c].req)
        /\ Answered(d) /\ cl[d].req.path = "/"
        /\ cl[d].req.method \notin {"GET", "HEAD"}

(* C3: two responses of one run to the same request, whatever the server   *)
(* did between them, have the same status and the same body.                *)
C3_SameRequestSameResponse ==
    \A c, d \in Conns :
        Answered(c) /\ Answered(d) /\ cl[c].req = cl[d].req
            => cl[c].resp = cl[d].resp

\* The same request has been answered on two connections.
C3_Witness ==
    \E c, d \in Conns :
        /\ c /= d
        /\ Answered(c) /\ Answered(d)
        /\ cl[c].req = cl[d].req

(* C10: the router of the binary (main.rs) and the router of the library   *)
(* (lib.rs) answer every request alike, and every response the running     *)
(* program has sent is the response of both.                                *)
C10_BinaryAndLibraryAgree ==
    RouterBuilt =>
        /\ \A req \in Requests :
              Serve(main_create_router(appState), req)
                  = Serve(lib_create_router(appState), req)
        /\ \A c \in Conns :
              Answered(c) =>
                  /\ cl[c].resp = Serve(main_create_router(appState), cl[c].req)
                  /\ cl[c].resp = Serve(lib_create_router(appState), cl[c].req)

\* The binary has answered a GET / and, on another connection, a request
\* that matches no route.
C10_Witness ==
    /\ mode = "main"
    /\ \E c, d \in Conns :
          /\ Answered(c) /\ IsGetRoot(cl[c].req)
          /\ Answered(d) /\ cl[d].req.path /= "/"

\* One GET / exchange: no response while the request is in flight, and then
\* one response, the greeting, on the connection of the request.
C4_Exchange(c) ==
    /\ cl[c].req = NoReq => cl[c].n = 0
    /\ IsGetRoot(cl[c].req) =>
          /\ st[c] = "read" => cl[c].n = 0
          /\ st[c] /= "read" => cl[c].n = 1 /\ cl[c].resp = Hello

(* C4: with GET / requests in flight on several connections at once, under *)
(* every interleaving each request gets one response and no more, on its   *)
(* own connection, and it is 200 "Hello, World!"; a request in flight is    *)
(* answered in the end.                                                     *)
C4_EachGetRootAnsweredOnce ==
    /\ [](\A c \in Conns : C4_Exchange(c))
    /\ \A c \in Conns :
          (st[c] = "read" /\ IsGetRoot(cl[c].req)) ~> (cl[c].n = 1)

\* One GET / has been answered while another GET / is still in flight.
C4_Witness ==
    \E c, d \in Conns :
        /\ st[c] = "read" /\ IsGetRoot(cl[c].req)
        /\ Answered(d) /\ IsGetRoot(cl[d].req)

\* The accept loop takes no connection in this step.
NoAccept == \A c \in Conns : ~(st[c] = "pending" /\ st'[c] = "idle")

\* A request in flight when the signal was sent is answered with the
\* router's response before the server is done.
C5_InFlightCompletes ==
    /\ [](server = "done" => \A c \in Conns : atSignal[c] /= "in flight")
    /\ [][\A c \in Conns :
             atSignal[c] = "in flight" /\ atSignal'[c] /= "in flight" =>
                 /\ atSignal'[c] = "answered"
                 /\ cl'[c].n = 1
                 /\ cl'[c].req = cl[c].req
                 /\ cl'[c].resp = Serve(router, cl[c].req)]_vars
    /\ \A c \in Conns : (atSignal[c] = "in flight") ~> (atSignal[c] = "answered")

(* C5 as stated: from the moment the shutdown signal has been sent no      *)
(* connection is accepted, and every request in flight at that moment is   *)
(* answered.                                                                *)
C5_NoAcceptOnceSent ==
    /\ [][(chan \in {"sent", "received"}) => NoAccept]_vars
    /\ C5_InFlightCompletes

(* C5 amended: from the moment the server's shutdown future has completed  *)
(* (the signal has been received) no connection is accepted, and every     *)
(* request in flight when the signal was sent is answered.                  *)
C5_NoAcceptOnceReceived ==
    /\ [][(chan = "received") => NoAccept]_vars
    /\ C5_InFlightCompletes

\* The server is shutting down or done, and a request that was in flight
\* when the signal was sent has its response.
C5_Witness ==
    /\ chan = "received"
    /\ \E c \in Conns :
          /\ atSignal[c] = "answered"
          /\ st[c] = "closed"
          /\ Answered(c)

(* C6: once the test has sent the shutdown signal, the spawned server task *)
(* completes, with Ok from the serve future and no panic, and the test's   *)
(* join returns; the client's kept-alive connection does not hold it up.   *)
C6_ServerTaskCompletes ==
    /\ (pc = "t_signalled") ~> (pc = "t_done" /\ server = "done" /\ result = "Ok")
    /\ [](mode = "test" => result \in {"pending", "Ok"})
    /\ [](mode = "test" /\ server = "done" => result = "Ok")

\* The test is over, and the connection of its client, open when the signal
\* was sent, was closed by the server.
C6_Witness ==
    /\ pc = "t_done"
    /\ result = "Ok"
    /\ st[TestConn] = "closed"

\* No connection has been made and no request served.
NothingServed ==
    \A c \in Conns : st[c] = "none" /\ cl[c] = NoExchange

(* C7: when the bind of main fails, main has tried it once, returns the    *)
(* bind error, and no serve loop runs and nothing is served; and main      *)
(* returns no other error before it serves.                                 *)
C7_BindFailureReturned ==
    mode = "main" =>
        /\ bindAttempts <= 1
        /\ bindAttempts = 1 /\ listener /= "bound" =>
              /\ pc = "m_exit"
              /\ result = "Err(bind)"
              /\ server = "none"
              /\ NothingServed
        /\ result /= "pending" =>
              /\ result = "Err(bind)"
              /\ pc = "m_exit"
              /\ bindAttempts = 1
              /\ listener = "none"

\* main has returned the bind error.
C7_Witness ==
    /\ mode = "main"
    /\ pc = "m_exit"
    /\ result = "Err(bind)"

(* C8: in main the subscriber is installed once, with the filter of        *)
(* RUST_LOG, or "info" when RUST_LOG is unset, and before the state, the   *)
(* router and the listener exist and before anything is served.            *)
C8_TracingFirst ==
    mode = "main" =>
        /\ initCount <= 1
        /\ initCount = 1 =>
              /\ env = "NotPresent" => subscriber = "info"
              /\ env = "debug" => subscriber = "debug"
        /\ \/ appState /= "none"
           \/ RouterBuilt
           \/ bindAttempts > 0
           \/ listener /= "none"
           \/ server /= "none"
           \/ ~NothingServed
           => initCount = 1 /\ subscriber /= "uninit"

\* The binary, started with RUST_LOG=debug, has answered a request.
C8_Witness ==
    /\ mode = "main"
    /\ env = "debug"
    /\ subscriber = "debug"
    /\ \E c \in Conns : Answered(c)

\* The route table holds the one entry (GET, "/") -> health_check.
OneRoute ==
    /\ Cardinality(router.routes) = 1
    /\ \A e \in router.routes :
          /\ e.path = "/"
          /\ e.filter = "GET"
          /\ e.handler = IF mode = "main" THEN "main::health_check"
                         ELSE "lib::health_check"

(* C9: once create_router has returned, the route table holds the one      *)
(* entry (GET, "/") -> health_check and the AppState is the one built, in  *)
(* every state; no step of the server changes either.                       *)
C9_RouterAndStateFrozen ==
    /\ [](RouterBuilt =>
             OneRoute /\ router.state = AppState /\ appState = AppState)
    /\ [][RouterBuilt => router' = router /\ appState' = appState]_vars

\* The server has accepted connections, answered a request that matches no
\* route, shut down and is done.
C9_Witness ==
    /\ RouterBuilt
    /\ server = "done"
    /\ \E c \in Conns : Answered(c) /\ cl[c].resp.status = 404
===========================================================================
